---- MODULE Spec2Model ----
(***************************************************************************)
(* Model of static-lang-word-lists/scripts/sort_by_vertical_extremes.py:   *)
(* main() walks the JOBS table; for every (word list, glob) pair it loads  *)
(* the word list, resolves the fonts, folds the two rankings of every font *)
(* into word_priorities, reorders the list and writes it back.             *)
(*                                                                         *)
(* Text is a sequence of code points, a word is a sequence of code points, *)
(* a file is the text it holds.                                            *)
(***************************************************************************)
EXTENDS Integers, Sequences, FiniteSets

\* ---------------------------------------------------------------- bounds
\* Number of rows of the JOBS table that are modelled.
NJobs == 2
\* Lines of a word-list file (before deduplication).
MaxLines == 3
\* Fonts matched over all globs of the table.
MaxFonts == 2
\* Fonts of a job times the lines of its word-list file.
MaxCells == 4
\* Invocations of main().
MaxRuns == 2

\* Code points
NL == 10
CR == 13
\* The words the files and the provider draw from: "", "a", "b".
Universe == { <<>>, <<97>>, <<98>> }
\* highest / lowest values a font can give a word
Vals == {0, 1}

\* ------------------------------------------------------- pure functions
Min(a, b) == IF a <= b THEN a ELSE b

Range(s) == { s[i] : i \in 1..Len(s) }

\* Boundaries str.splitlines() splits at: \n \v \f \r FS GS RS NEL LS PS.
LineBoundaries == {10, 11, 12, 13, 28, 29, 30, 133, 8232, 8233}

\* Path.read_text(): text mode with universal newlines, "\r\n" and "\r"
\* are read as "\n".
ReadText(content) ==
    LET tr[i \in 0..Len(content)] ==
          IF i = 0 THEN <<>>
          ELSE IF content[i] = CR THEN Append(tr[i-1], NL)
          ELSE IF content[i] = NL /\ i > 1 /\ content[i-1] = CR THEN tr[i-1]
          ELSE Append(tr[i-1], content[i])
    IN tr[Len(content)]

\* str.splitlines(): the pieces between line boundaries, without a last
\* empty piece when the text ends with a boundary ("" gives no line).
SplitLines(text) ==
    LET st[i \in 0..Len(text)] ==
          IF i = 0 THEN [lines |-> <<>>, cur |-> <<>>, open |-> FALSE]
          ELSE IF text[i] \in LineBoundaries
               THEN [lines |-> Append(st[i-1].lines, st[i-1].cur),
                     cur |-> <<>>, open |-> FALSE]
               ELSE [lines |-> st[i-1].lines,
                     cur |-> Append(st[i-1].cur, text[i]), open |-> TRUE]
        end == st[Len(text)]
    IN IF end.open THEN Append(end.lines, end.cur) ELSE end.lines

\* dict.fromkeys(lines): the keys in order of first occurrence.
FromKeys(lines) ==
    LET d[i \in 0..Len(lines)] ==
          IF i = 0 THEN <<>>
          ELSE IF lines[i] \in Range(d[i-1]) THEN d[i-1]
          ELSE Append(d[i-1], lines[i])
    IN d[Len(lines)]

\* "\n".join(words)
Join(words) ==
    LET j[i \in 0..Len(words)] ==
          IF i = 0 THEN <<>>
          ELSE IF i = 1 THEN words[1]
          ELSE j[i-1] \o <<NL>> \o words[i]
    IN j[Len(words)]


\* Mutation: the text is written without the newline after the last word.
SerializeNoNewline(words) == Join(words)

\* The text main() writes: "\n".join(ordered) + "\n"
Serialize(words) == Join(words) \o <<NL>>

\* The word list main() loads from a file.
LoadWordList(content) == FromKeys(SplitLines(ReadText(content)))

\* str < str: lexicographic on code points, a proper prefix is smaller.
StrLess(u, v) ==
    \E k \in 1..(Len(v)) :
       /\ \A i \in 1..(k-1) : i <= Len(u) /\ u[i] = v[i]
       /\ k - 1 <= Len(u)
       /\ (k > Len(u) \/ u[k] < v[k])

\* sorted(): stable insertion of item x into the sorted sequence s of
\* items; x goes behind every item that is not greater than it.  Items
\* are positions of the input, less[i, k] tells whether input i sorts
\* before input k.
InsertStable(s, x, less) ==
    LET p == Cardinality({ i \in 1..Len(s) : ~less[x, s[i]] })
    IN SubSeq(s, 1, p) \o <<x>> \o SubSeq(s, p + 1, Len(s))

\* sorted(seq, key=...): the stable sort, items with equal keys keep the
\* order they have in seq.
SortedBy(seq, less) ==
    LET srt[i \in 0..Len(seq)] ==
          IF i = 0 THEN <<>> ELSE InsertStable(srt[i-1], i, less)
    IN [k \in 1..Len(seq) |-> seq[srt[Len(seq)][k]]]

\* -------------------------------------------------------------- state
VARIABLES
    files,              \* word-list file of every job: the text it holds
    matched,            \* number of font files the glob of every job matches
    prov,               \* the provider's copy of every word list
    metrics,            \* highest / lowest of every (job, font, word)
    run,                \* invocations of main() so far
    pc,                 \* position of main()
    error,              \* the exception that ended main(), or "none"
    job,                \* index of the JOBS row of the for loop, 0 before it
    original_word_list,
    word_priorities,    \* insertion ordered dict: sequence of [word, index]
    font_paths,
    fi,                 \* position of the font loop in font_paths
    ordered,
    scripts_sorted,
    loaded,             \* history: the word list this job loaded
    passes,             \* history: the rankings folded in for this job
    start_files,        \* history: files when this run of main() began
    prev_sorted         \* history: scripts_sorted at the end of the last run

vars == <<files, matched, prov, metrics, run, pc, error, job,
          original_word_list, word_priorities, font_paths, fi, ordered,
          scripts_sorted, loaded, passes, start_files, prev_sorted>>

env == <<files, matched, prov, metrics>>

Jobs == 1..NJobs

\* -------------------------------------------------- the environment
SeqsUpTo(S, n) == UNION { [1..k -> S] : k \in 0..n }

\* Sequences without a repeated element.
Distinct(s) == \A i, k \in 1..Len(s) : i # k => s[i] # s[k]

\* Texts of at most n lines over Universe, with and without the newline
\* after the last line.
Contents(n) ==
    UNION { { Join(ls), Join(ls) \o <<NL>> } : ls \in SeqsUpTo(Universe, n) }

NumLines(content) == Len(SplitLines(ReadText(content)))

\* The provider's copy of a word list: the list as it is stored now
\* (fresh), or a list of its own that the file has drifted away from:
\* no word or one word, of the file or not.
Providers ==
    { [fresh |-> TRUE, list |-> <<>>] } \cup
    { [fresh |-> FALSE, list |-> l] : l \in SeqsUpTo(Universe, 1) }

ProviderWords(content, p) ==
    IF p.fresh THEN LoadWordList(content) ELSE p.list

\* One font's measurements: a value pair for every word the provider
\* lists, <<0, 0>> for the words it is never asked about.  Only the order
\* of a font's values counts, so its smallest highest and its smallest
\* lowest are 0.
FontMetrics(support) ==
    { m \in [Universe -> Vals \X Vals] :
        /\ \A w \in Universe \ support : m[w] = <<0, 0>>
        /\ support # {} => \E w \in support : m[w][1] = 0
        /\ support # {} => \E w \in support : m[w][2] = 0 }

\* The rows are independent of each other, main() carries nothing but
\* scripts_sorted from one to the next: the later rows meet an empty word
\* list, with no font or, when the rows before leave one of MaxFonts, one.
LaterEnvs(fonts) ==
    { [file |-> <<>>, matched |-> n, prov |-> [fresh |-> TRUE, list |-> <<>>],
       metrics |-> [f \in 1..n |-> [w \in Universe |-> <<0, 0>>]]] :
      n \in 0..Min(1, fonts) }

LaterRows[k \in 0..NJobs, fonts \in 0..MaxFonts] ==
    IF k = 0 THEN { <<>> }
    ELSE UNION { { <<e>> \o t : t \in LaterRows[k - 1, fonts - e.matched] } :
                 e \in LaterEnvs(fonts) }

\* The first row meets every file of at most MaxLines lines, up to
\* MaxFonts fonts, every provider list and every measurement of its
\* words, as long as fonts times lines stay within MaxCells.
Init ==
    /\ \E c \in Contents(MaxLines), n \in 0..MaxFonts, p \in Providers :
         /\ NumLines(c) <= MaxLines
         /\ n * NumLines(c) <= MaxCells
         /\ n = 0 => p.fresh
         /\ \E m \in [1..n -> FontMetrics(Range(ProviderWords(c, p)))],
               t \in LaterRows[NJobs - 1, MaxFonts - n] :
              LET rows == <<[file |-> c, matched |-> n, prov |-> p,
                             metrics |-> m]>> \o t
              IN /\ files = [j \in Jobs |-> rows[j].file]
                 /\ matched = [j \in Jobs |-> rows[j].matched]
                 /\ prov = [j \in Jobs |-> rows[j].prov]
                 /\ metrics = [j \in Jobs |-> rows[j].metrics]
    /\ run = 1
    /\ pc = "loop"
    /\ error = "none"
    /\ job = 0
    /\ original_word_list = <<>>
    /\ word_priorities = <<>>
    /\ font_paths = <<>>
    /\ fi = 0
    /\ ordered = <<>>
    /\ scripts_sorted = {}
    /\ loaded = <<>>
    /\ passes = <<>>
    /\ start_files = files
    /\ prev_sorted = {}

\* ---------------------------------------------------------- main()
\* sorted(FONT_DIR.glob(glob)): the matched font files in name order.
SortedFonts(n) == [i \in 1..n |-> i]


\* Mutation: the assertion is not checked.
FontsAssertedOff(paths) == TRUE

\* assert len(font_paths) > 0
FontsAsserted(paths) == Len(paths) > 0

\* fontheight._get_all_word_list_extremes(font, name): one WordExtreme
\* per word of the provider's copy of the list, in the order of that copy.
Extremes(j, font) ==
    LET ws == ProviderWords(files[j], prov[j])
    IN [i \in 1..Len(ws) |->
          [word |-> ws[i],
           highest |-> metrics[j][font][ws[i]][1],
           lowest |-> metrics[j][font][ws[i]][2]]]

\* sorted(results, key=lambda we: we.highest, reverse=True): reverse
\* keeps the order of entries with equal keys.
HighestBefore(a, b) == a.highest > b.highest
HighestPass(results) ==
    SortedBy(results, [i, k \in 1..Len(results) |->
                         HighestBefore(results[i], results[k])])

\* sorted(results, key=lambda we: we.lowest)
LowestBefore(a, b) == a.lowest < b.lowest
LowestPass(results) ==
    SortedBy(results, [i, k \in 1..Len(results) |->
                         LowestBefore(results[i], results[k])])

\* word_priorities.get(word): the position of the key, 0 for None.
KeyPos(wp, word) ==
    IF \E i \in 1..Len(wp) : wp[i].word = word
    THEN CHOOSE i \in 1..Len(wp) : wp[i].word = word
    ELSE 0


\* Mutation: the last rank replaces the stored one.
NewValueLast(current_index, index) == index

\* new_value = index if current_index is None else min(current_index, index)
NewValue(current_index, index) == Min(current_index, index)

\* word_priorities[word] = new_value: a new key goes to the end of the
\* dict, an old key keeps its place.
SetPriority(wp, word, index) ==
    LET p == KeyPos(wp, word)
    IN IF p = 0 THEN Append(wp, [word |-> word, index |-> index])
       ELSE [wp EXCEPT ![p].index = NewValue(wp[p].index, index)]

\* for index, word_extreme in enumerate(pass): ... (0-based index)
FoldPass(wp, pass) ==
    LET f[i \in 0..Len(pass)] ==
          IF i = 0 THEN wp ELSE SetPriority(f[i-1], pass[i].word, i - 1)
    IN f[Len(pass)]


\* Mutation: the sort compares the priority alone.
TupleLessIndexOnly(a, b) == a[1] < b[1]

\* (index, word) < (index, word): tuples compare item by item.
TupleLess(a, b) ==
    \/ a[1] < b[1]
    \/ a[1] = b[1] /\ StrLess(a[2], b[2])

\* [word for _, word in sorted((index, word) for word, index in
\*  word_priorities.items())]
Ordered(wp) ==
    LET tuples == [i \in 1..Len(wp) |-> <<wp[i].index, wp[i].word>>]
        srt == SortedBy(tuples, [i, k \in 1..Len(tuples) |->
                                   TupleLess(tuples[i], tuples[k])])
    IN [i \in 1..Len(srt) |-> srt[i][2]]


\* Mutation: a missing key is passed over (pop with a default).
FirstMissingIgnored(ord, list) == 0

\* The first position of ord whose word is no key of the list, where
\* del original_word_list[word] raises KeyError; 0 when no del raises.
FirstMissing(ord, list) ==
    IF \E i \in 1..Len(ord) : ord[i] \notin Range(list)
    THEN CHOOSE i \in 1..Len(ord) :
           /\ ord[i] \notin Range(list)
           /\ \A k \in 1..(i-1) : ord[k] \in Range(list)
    ELSE 0


\* Mutation: the ranked words are not deleted from the list.
RemainingKeepsAll(list, gone) == list

\* The keys the list keeps after del original_word_list[w] for w in gone.
Remaining(list, gone) ==
    LET keep == { i \in 1..Len(list) : list[i] \notin gone }
        f[i \in 0..Len(list)] ==
          IF i = 0 THEN <<>>
          ELSE IF i \in keep THEN Append(f[i-1], list[i]) ELSE f[i-1]
    IN f[Len(list)]


\* Mutation: the unranked words go in front.
ExtendInFront(ord, rest) == rest \o ord

\* Mutation: the unranked words are not appended.
ExtendDropsRest(ord, rest) == ord

\* ordered.extend(original_word_list.keys())
Extend(ord, rest) == ord \o rest


\* Mutation: the failure of a job is caught and the loop goes on.
RaiseAndContinue(exc) == "loop"

\* An exception nobody catches leaves the for loop and main().
Raise(exc) == "crashed"

\* for word_list_rel_path, glob in JOBS: read the next word list
StartJob ==
    /\ pc = "loop"
    /\ job < NJobs
    /\ job' = job + 1
    /\ original_word_list' = LoadWordList(files[job + 1])
    /\ loaded' = original_word_list'
    /\ word_priorities' = <<>>
    /\ passes' = <<>>
    /\ pc' = "glob"
    /\ UNCHANGED <<env, run, error, font_paths, fi, ordered, scripts_sorted,
                   start_files, prev_sorted>>

\* font_paths = sorted(FONT_DIR.glob(glob)); assert len(font_paths) > 0
ResolveFonts ==
    /\ pc = "glob"
    /\ font_paths' = SortedFonts(matched[job])
    /\ \/ /\ FontsAsserted(font_paths')
          /\ pc' = "fonts"
          /\ fi' = 1
          /\ error' = error
       \/ /\ ~FontsAsserted(font_paths')
          /\ pc' = Raise("AssertionError")
          /\ error' = "AssertionError"
          /\ fi' = fi
    /\ UNCHANGED <<env, run, job, original_word_list, word_priorities,
                   ordered, scripts_sorted, loaded, passes, start_files,
                   prev_sorted>>

\* for font in font_paths: one turn of the loop, both passes
FoldFont ==
    /\ pc = "fonts"
    /\ fi <= Len(font_paths)
    /\ LET results == Extremes(job, font_paths[fi])
           hi == HighestPass(results)
           lo == LowestPass(results)
       IN /\ word_priorities' = FoldPass(FoldPass(word_priorities, hi), lo)
          /\ passes' = passes \o
               << [i \in 1..Len(hi) |-> hi[i].word],
                  [i \in 1..Len(lo) |-> lo[i].word] >>
    /\ fi' = fi + 1
    /\ UNCHANGED <<env, run, pc, error, job, original_word_list, font_paths,
                   ordered, scripts_sorted, loaded, start_files, prev_sorted>>

\* ordered = [...]; for word in ordered: del original_word_list[word];
\* ordered.extend(original_word_list.keys())
Reorder ==
    /\ pc = "fonts"
    /\ fi > Len(font_paths)
    /\ LET ord == Ordered(word_priorities)
           miss == FirstMissing(ord, original_word_list)
       IN \/ /\ miss = 0
             /\ original_word_list' = Remaining(original_word_list, Range(ord))
             /\ ordered' = Extend(ord, original_word_list')
             /\ pc' = "write"
             /\ error' = error
          \/ /\ miss > 0
             /\ original_word_list' =
                  Remaining(original_word_list, Range(SubSeq(ord, 1, miss - 1)))
             /\ ordered' = ord
             /\ pc' = Raise("KeyError")
             /\ error' = "KeyError"
    /\ UNCHANGED <<env, run, job, word_priorities, font_paths, fi,
                   scripts_sorted, loaded, passes, start_files, prev_sorted>>

\* word_list_path.write_text("\n".join(ordered) + "\n");
\* scripts_sorted.add(word_list_path.stem)
WriteFile ==
    /\ pc = "write"
    /\ files' = [files EXCEPT ![job] = Serialize(ordered)]
    /\ scripts_sorted' = scripts_sorted \cup {job}
    /\ pc' = "loop"
    /\ UNCHANGED <<matched, prov, metrics, run, error, job,
                   original_word_list, word_priorities, font_paths, fi,
                   ordered, loaded, passes, start_files, prev_sorted>>

\* After the loop: the report of the unsorted scripts, main() returns.
Report ==
    /\ pc = "loop"
    /\ job = NJobs
    /\ pc' = "done"
    /\ UNCHANGED <<env, run, error, job, original_word_list, word_priorities,
                   font_paths, fi, ordered, scripts_sorted, loaded, passes,
                   start_files, prev_sorted>>

\* The script is started again: main() begins with fresh locals on the
\* files the last run left.
Rerun ==
    /\ pc \in {"done", "crashed"}
    /\ run < MaxRuns
    /\ run' = run + 1
    /\ pc' = "loop"
    /\ error' = "none"
    /\ job' = 0
    /\ original_word_list' = <<>>
    /\ word_priorities' = <<>>
    /\ font_paths' = <<>>
    /\ fi' = 0
    /\ ordered' = <<>>
    /\ scripts_sorted' = {}
    /\ loaded' = <<>>
    /\ passes' = <<>>
    /\ start_files' = files
    /\ prev_sorted' = scripts_sorted
    /\ UNCHANGED env

Next ==
    \/ StartJob
    \/ ResolveFonts
    \/ FoldFont
    \/ Reorder
    \/ WriteFile
    \/ Report
    \/ Rerun

Spec == Init /\ [][Next]_vars

\* ------------------------------------------------------------ claims
\* The current job has computed its complete output sequence.
Reordered == job >= 1 /\ pc \in {"write", "loop", "done"}

\* The current job has completed: its file is written.
Completed == job >= 1 /\ pc \in {"loop", "done"}

\* Every font of the current job has been folded in.
AllFolded == job >= 1 /\ matched[job] > 0 /\ Len(passes) = 2 * matched[job]

\* The words that appear in a measurement of the current job.
Measured == UNION { Range(passes[i]) : i \in 1..Len(passes) }

\* A font of the current job returned no entry.
EmptyReturned == \E i \in 1..Len(passes) : passes[i] = <<>>

\* A measurement of the current job names a word the list does not hold.
ForeignMeasured == job >= 1 /\ \E w \in Measured : w \notin Range(loaded)

Priority(w) == word_priorities[KeyPos(word_priorities, w)].index

PosIn(seq, w) == CHOOSE i \in 1..Len(seq) : seq[i] = w

\* The 0-based ranks a word obtained in the passes folded so far.
Ranks(w) ==
    { p - 1 : p \in { q \in 1..Cardinality(Universe) :
                        \E i \in 1..Len(passes) :
                           q <= Len(passes[i]) /\ passes[i][q] = w } }

IsPermutation(s, t) ==
    /\ Len(s) = Len(t)
    /\ Distinct(s)
    /\ Distinct(t)
    /\ Range(s) = Range(t)

\* C1: the sequence a completed job wrote is a permutation of the loaded
\* word list: every loaded word once, no other word.
C1_Permutation ==
    Completed => IsPermutation(ordered, loaded)

\* C1 witness: a completed job whose file repeated a line and whose output
\* order differs from the loaded order.
C1_Witness ==
    /\ Completed
    /\ NumLines(start_files[job]) > Len(loaded)
    /\ Len(ordered) >= 2
    /\ ordered # loaded

\* C2: once all fonts are folded in, every measured word has a priority,
\* and it is the smallest rank the word obtained in any of the 2F passes.
C2_MinRank ==
    AllFolded =>
      \A w \in Measured :
         /\ KeyPos(word_priorities, w) > 0
         /\ \A r \in Ranks(w) : Priority(w) <= r
         /\ Priority(w) \in Ranks(w)

\* C2 witness: two fonts folded in; one word improved on its first rank
\* in a later pass, another had rank 0 first and a worse rank later.
C2_Witness ==
    /\ AllFolded
    /\ matched[job] = 2
    /\ \E u, v \in Measured :
         /\ passes[1][1] = v /\ Priority(v) = 0 /\ 1 \in Ranks(v)
         /\ passes[1][2] = u /\ Priority(u) = 0

\* C3 as stated: ranked words of equal priority come out in the order of
\* their insertion into word_priorities.
C3_InsertionOrder ==
    Reordered =>
      \A u, v \in Measured :
         (/\ Priority(u) = Priority(v)
          /\ KeyPos(word_priorities, u) < KeyPos(word_priorities, v))
         => PosIn(ordered, u) < PosIn(ordered, v)

\* C3 amended: ranked words of equal priority come out in ascending order
\* of the word strings, whatever their order of insertion.
C3_WordOrder ==
    Reordered =>
      \A u, v \in Measured :
         (Priority(u) = Priority(v) /\ StrLess(u, v))
         => PosIn(ordered, u) < PosIn(ordered, v)

\* C3 witness: two ranked words of equal priority, the greater string
\* inserted first.
C3_Witness ==
    /\ Reordered
    /\ \E u, v \in Measured :
         /\ Priority(u) = Priority(v)
         /\ StrLess(u, v)
         /\ KeyPos(word_priorities, v) < KeyPos(word_priorities, u)

\* C4: in the output every unmeasured word comes after every measured
\* word, and the unmeasured words keep their order of the loaded list.
C4_UnmeasuredLast ==
    Reordered =>
      \A u, v \in Range(loaded) :
         /\ (u \in Measured /\ v \notin Measured)
              => PosIn(ordered, u) < PosIn(ordered, v)
         /\ (u \notin Measured /\ v \notin Measured
               /\ PosIn(loaded, u) < PosIn(loaded, v))
              => PosIn(ordered, u) < PosIn(ordered, v)

\* C4 witness: a measured word that was loaded last and two unmeasured
\* words before it.
C4_Witness ==
    /\ Reordered
    /\ Len(loaded) = 3
    /\ loaded[3] \in Measured
    /\ loaded[1] \notin Measured
    /\ loaded[2] \notin Measured

\* C5 as stated: a job run again on the file it wrote, with the same fonts
\* and values and the provider listing the stored list, writes the same
\* text again.
C5_Idempotent ==
    (/\ Completed
     /\ run >= 2
     /\ job \in prev_sorted
     /\ prov[job].fresh)
    => files[job] = start_files[job]

\* C6: a job whose glob matches no font fails on the assertion before any
\* measurement, and its file is not written.
C6_NoFonts ==
    (job >= 1 /\ matched[job] = 0 /\ pc # "glob") =>
      /\ pc = "crashed"
      /\ error = "AssertionError"
      /\ passes = <<>>
      /\ job \notin scripts_sorted
      /\ files[job] = start_files[job]

\* C6 witness: the job of a three-word list failed on the assertion.
C6_Witness ==
    /\ job >= 1
    /\ matched[job] = 0
    /\ pc = "crashed"
    /\ Len(loaded) = 3

\* C7: a job that measured a word outside the loaded list never writes:
\* it ends with KeyError and the file holds its content of before.
C7_ForeignWord ==
    ForeignMeasured =>
      /\ pc \in {"fonts", "crashed"}
      /\ pc = "crashed" => error = "KeyError"
      /\ job \notin scripts_sorted
      /\ files[job] = start_files[job]

\* C7 witness: a job with a non-empty list ended with KeyError.
C7_Witness ==
    /\ ForeignMeasured
    /\ pc = "crashed"
    /\ error = "KeyError"
    /\ loaded # <<>>

\* C8 as stated: a job one of whose fonts returned no measurement does
\* not complete and writes nothing.
C8_EmptyIsFatal ==
    (job >= 1 /\ EmptyReturned) =>
      /\ pc \notin {"write", "loop", "done"}
      /\ job \notin scripts_sorted

\* C8 amended: a font that returns no measurement adds nothing and raises
\* nothing; a job whose fonts all return none completes and writes the
\* loaded list in its loaded order.
C8_EmptyIsSkipped ==
    (AllFolded /\ \A i \in 1..Len(passes) : passes[i] = <<>>) =>
      /\ word_priorities = <<>>
      /\ pc # "crashed"
      /\ Reordered => ordered = loaded
      /\ Completed => (/\ job \in scripts_sorted
                       /\ files[job] = Join(loaded) \o <<NL>>)

\* C8 witness: a job with a non-empty list completed although its fonts
\* returned no measurement.
C8_Witness ==
    /\ Completed
    /\ AllFolded
    /\ EmptyReturned
    /\ loaded # <<>>

\* C9 as stated: when a job has failed for want of fonts, the jobs listed
\* after it are still processed and written.
C9_BatchGoesOn ==
    (pc = "crashed" /\ error = "AssertionError") =>
      \A k \in Jobs : k > job => k \in scripts_sorted

\* C9 amended: a job that fails for want of fonts ends the whole run of
\* main(): no job listed after it is processed, none of their files is
\* written.
C9_BatchAborts ==
    (job >= 1 /\ matched[job] = 0 /\ pc # "glob") =>
      /\ pc = "crashed"
      /\ \A k \in Jobs : k > job =>
            /\ k \notin scripts_sorted
            /\ files[k] = start_files[k]

\* C9 witness: the first job failed for want of fonts while the next job
\* has a font to be sorted with.
C9_Witness ==
    /\ pc = "crashed"
    /\ error = "AssertionError"
    /\ job < NJobs
    /\ matched[job + 1] > 0

\* C10 as stated: loading the file a completed job wrote gives the
\* sequence it wrote, the empty sequence included.
C10_RoundTrip ==
    Completed => LoadWordList(files[job]) = ordered

\* C10 amended: loading the file a completed job wrote gives the sequence
\* it wrote when that sequence is not empty; for the empty sequence the
\* file holds one newline and loads as the list of the empty word.
C10_RoundTripNonEmpty ==
    Completed =>
      /\ ordered # <<>> => LoadWordList(files[job]) = ordered
      /\ ordered = <<>> => LoadWordList(files[job]) = << <<>> >>

\* C10 witness: a completed job wrote a sequence that ends with the empty
\* word.
C10_Witness ==
    /\ Completed
    /\ Len(ordered) >= 2
    /\ ordered[Len(ordered)] = <<>>

====
